---- MODULE Spec2Model ----
(***************************************************************************)
(* Model of src/index.ts (extractVisibleElementLocators) and of its caller *)
(* src/test.ts (run): the traversal engine traverseAndExtract with its     *)
(* parent/child conflict rule, the inventory allFoundElements, the polling *)
(* loop built on setInterval, and the handle {getLocators,stopObservation}.*)
(*                                                                         *)
(* The rendered document is the external driver.  It is a tree of element  *)
(* handles; what the driver answers for an element (bounding box, computed *)
(* style, generated selector, parent, match count, inner text, content     *)
(* frame) is a field of the variable doc.  Every await of the source is    *)
(* one step of a pass: the action for a step consumes the driver's answer  *)
(* and runs the synchronous code up to the next await.                     *)
(***************************************************************************)
EXTENDS Integers, Sequences, FiniteSets, TLC

(* ------------------------------ bounds -------------------------------- *)

\* Elements of the rendered document, numbered in document order.
NElems == 3
\* Timer pulses modelled per session.
MaxPulses == 2
\* Changes of the live document modelled per session (specification Spec).
MaxMutations == 1
\* Elements of the page the locator function is applied to on its own.
NNodes == 2
\* The session's nameMaxLength option (index.ts:35 defaults it to 50; the
\* modelled texts are short, so a short limit exercises the truncation).
nameMaxLength == 3

(* ------------------------- program constants -------------------------- *)

\* index.ts:33, the default of the option minElementSize.
minElementSize == 5

(* ----------------------------- document ------------------------------- *)

Elems == 1..NElems

\* The selector strings the in-page generator can answer with.
\* There are as many as elements, so that every element can have its own.
LocSeq == SubSeq(<<"L1", "L2", "L3", "L4", "L5", "L6">>, 1, NElems)
Locs == {LocSeq[i] : i \in 1..Len(LocSeq)}
LocIx(l) == CHOOSE i \in 1..Len(LocSeq) : LocSeq[i] = l
\* generateCssLocator's null (the evaluation threw).
Null == "null"
\* The selector of a document's <html> element, which '$$' never enumerates.
HtmlLoc == "html"

\* boundingBox() answered null, or the handle is detached.
NoBox == [styled |-> FALSE, width |-> 0, height |-> 0, box |-> FALSE]
BigBox == [styled |-> TRUE, width |-> 8, height |-> 8, box |-> TRUE]
Boxes ==
    { NoBox,
      BigBox,
      [styled |-> FALSE, width |-> 8, height |-> 8, box |-> TRUE],
      [styled |-> TRUE, width |-> 3, height |-> 8, box |-> TRUE],
      [styled |-> TRUE, width |-> 8, height |-> 3, box |-> TRUE],
      [styled |-> TRUE, width |-> 3, height |-> 3, box |-> TRUE] }

\* The driver call that throws for an element ("none": no call does).
\*   parent : element.evaluateHandle(el => el.parentElement)   (index.ts:227)
\*   orphan : no throw, but el.parentElement is null           (index.ts:229)
\*   count  : playwrightLocator.count()                        (index.ts:249)
\*   name   : the evaluate of getElementName                   (index.ts:252)
\*   frame  : element.contentFrame()                           (index.ts:264)
\*   fenum  : '$$' on the element's content frame              (index.ts:208)
Faults == {"none", "parent", "orphan", "count", "name", "frame", "fenum"}

RECURSIVE IsAncestor(_, _, _)
\* a is a strict ancestor of e along the tree par (0 is above every root).
IsAncestor(par, a, e) ==
    IF par[e] = 0 THEN FALSE
    ELSE par[e] = a \/ IsAncestor(par, a, par[e])

\* Parent maps whose numbering 1..NElems is the document order (preorder).
TreeShapes ==
    { par \in [Elems -> 0..NElems] :
        /\ par[1] = 0
        /\ \A e \in Elems \ {1} :
             /\ par[e] \in 1..(e - 1)
             /\ par[e] = e - 1 \/ IsAncestor(par, par[e], e - 1) }

Children(par, e) == { c \in Elems : par[c] = e }

\* Sets of elements that are the <body> of a nested frame: the frame's host
\* (an iframe element, never the page's body) has the frame as its content.
FrameSets(par) ==
    { F \in SUBSET (Elems \ {1}) :
        \A b \in F : par[b] # 1 /\ Children(par, par[b]) = {b} }

\* Selector assignments up to renaming of the selector strings.
CssAssignments ==
    { css \in [Elems -> Locs] :
        /\ css[1] = LocSeq[1]
        /\ \A e \in Elems \ {1} :
             \E x \in 1..(e - 1) : LocIx(css[e]) <= LocIx(css[x]) + 1 }

BaseDocs ==
    { [ parentOf |-> par, framed |-> F, css |-> css,
        box      |-> [e \in Elems |-> BigBox],
        selfMatch |-> [e \in Elems |-> TRUE],
        fault    |-> [e \in Elems |-> "none"],
        rootDown |-> FALSE ] :
      par \in TreeShapes, F \in SUBSET (Elems \ {1}), css \in CssAssignments }

WellFormed(d) == d.framed \in FrameSets(d.parentOf)

\* The changes one element of a document can show against the base document.
OddDocs(d) ==
    {d}
    \cup { [d EXCEPT !.box[e] = b] : e \in Elems, b \in Boxes \ {BigBox} }
    \cup { [d EXCEPT !.css[e] = Null] : e \in Elems }
    \cup { [d EXCEPT !.selfMatch[e] = FALSE] : e \in Elems }
    \cup { [d EXCEPT !.fault[e] = f] : e \in Elems, f \in Faults \ {"none"} }
    \cup { [d EXCEPT !.rootDown = TRUE] }

Docs == UNION { OddDocs(d) : d \in { b \in BaseDocs : WellFormed(b) } }

\* The documents of specification Spec: every element is rendered and answers
\* without fault; the page changes them.
SessionDocs ==
    { d \in BaseDocs : WellFormed(d) }

(* ------------------- the driver's answers (pure) ---------------------- *)

\* index.ts:48-73.  A null bounding box and a throwing evaluation both give
\* {isVisible: false, width: 0, height: 0}.  Element 0, the <html> above a
\* body, is rendered.
getElementVisibilityAndBoundingBox(d, e) ==
    LET b == IF e = 0 THEN BigBox ELSE d.box[e] IN
    IF ~b.box
    THEN [isVisible |-> FALSE, width |-> 0, height |-> 0]
    ELSE [isVisible |-> b.styled, width |-> b.width, height |-> b.height]

\* index.ts:213 and 233: the test the loop applies to a BoundingInfo.
Qualifies(info) ==
    info.isVisible /\ info.width >= minElementSize /\ info.height >= minElementSize

IsQualifying(d, e) == Qualifies(getElementVisibilityAndBoundingBox(d, e))

\* index.ts:81-147: the selector the in-page function answers, or Null when
\* the evaluation threw.  Element 0 is the <html> above a document's body.
generateCssLocator(d, e) == IF e = 0 THEN HtmlLoc ELSE d.css[e]

\* el.parentElement (index.ts:227): the body of a page or of a frame has the
\* <html> element 0 as its parent.
ParentElement(d, e) == IF e \in d.framed THEN 0 ELSE d.parentOf[e]

RECURSIVE ContextOf(_, _)
\* The document an element lives in: the body of its nested frame, 0 for the page.
ContextOf(d, e) ==
    IF e \in d.framed THEN e
    ELSE IF d.parentOf[e] = 0 THEN 0
    ELSE ContextOf(d, d.parentOf[e])

\* context.locator(locator).count() (index.ts:248-249): the elements of the
\* candidate's own context that the selector matches.
LocatorCount(d, e) ==
    Cardinality({ x \in Elems :
        /\ ContextOf(d, x) = ContextOf(d, e)
        /\ d.css[x] = d.css[e]
        /\ d.selfMatch[x] })

\* el.innerText of the modelled elements: they carry no label, title,
\* aria-label, placeholder or alt, so rule 6 of getElementName decides.
\* The text of element e starts with a letter of its own and is e + 1 long.
InnerText(e) == <<SubSeq(<<"a", "b", "c", "d", "e", "f">>, e, e)[1]>> \o [i \in 1..e |-> "x"]

\* Texts are sequences of characters; Blank is white space.
Blank == " "

RECURSIVE TrimStart(_)
TrimStart(t) == IF t # <<>> /\ Head(t) = Blank THEN TrimStart(Tail(t)) ELSE t

RECURSIVE TrimEnd(_)
TrimEnd(t) ==
    IF t # <<>> /\ t[Len(t)] = Blank THEN TrimEnd(SubSeq(t, 1, Len(t) - 1)) ELSE t

\* String.prototype.trim.
Trim(t) == TrimEnd(TrimStart(t))

\* String.prototype.substring(0, n): an n below 0 counts as 0 and an n above
\* the length as the length.
Substring(t, n) ==
    SubSeq(t, 1, IF n < 0 THEN 0 ELSE IF n > Len(t) THEN Len(t) ELSE n)

RECURSIVE FirstToken(_)
\* className.split(' ')[0] (index.ts:196).
FirstToken(t) ==
    IF t = <<>> \/ Head(t) = Blank THEN <<>> ELSE <<Head(t)>> \o FirstToken(Tail(t))

\* A fallback that returns the composed name whole.
NameFallbackWhole(a, maxLength) ==
    a.tagName \o
       (IF a.id # <<>> THEN <<" ", "(", "I", "D", ":", " ">> \o a.id \o <<")">>
        ELSE IF a.className # <<>>
        THEN <<" ", "(", "C", "l", "a", "s", "s", ":", " ">>
                \o FirstToken(a.className) \o <<")">>
        ELSE <<>>)

\* index.ts:193-198: the tag name, with the id or the first class token.
NameFallback(a, maxLength) ==
    Substring(
       a.tagName \o
          (IF a.id # <<>> THEN <<" ", "(", "I", "D", ":", " ">> \o a.id \o <<")">>
           ELSE IF a.className # <<>>
           THEN <<" ", "(", "C", "l", "a", "s", "s", ":", " ">>
                   \o FirstToken(a.className) \o <<")">>
           ELSE <<>>),
       maxLength)

\* index.ts:156-199, the function evaluated in the page.  Of the element it
\* reads: id, the innerText of the label whose 'for' is the id (labelFor),
\* the innerText of the parent when the parent is a label (parentLabel), the
\* attributes title, aria-label, placeholder and alt, innerText, the tag
\* name in lower case and className.  An absent attribute or label is <<>>.
ElementNameOf(a, maxLength) ==
    IF a.id # <<>> /\ a.labelFor # <<>>
    THEN Substring(Trim(a.labelFor), maxLength)
    ELSE IF a.parentLabel # <<>> THEN Substring(Trim(a.parentLabel), maxLength)
    ELSE IF a.title # <<>> THEN Substring(Trim(a.title), maxLength)
    ELSE IF a.ariaLabel # <<>> THEN Substring(Trim(a.ariaLabel), maxLength)
    ELSE IF a.placeholder # <<>> THEN Substring(Trim(a.placeholder), maxLength)
    ELSE IF a.alt # <<>> THEN Substring(Trim(a.alt), maxLength)
    ELSE IF a.innerText # <<>> /\ Len(Trim(a.innerText)) > 0
    THEN LET text == Trim(a.innerText)
         IN Substring(text, IF Len(text) < maxLength THEN Len(text) ELSE maxLength)
    ELSE NameFallback(a, maxLength)

\* What the name function reads of element e of a modelled document.
Unlabelled(e) ==
    [ id |-> <<>>, labelFor |-> <<>>, parentLabel |-> <<>>, title |-> <<>>,
      ariaLabel |-> <<>>, placeholder |-> <<>>, alt |-> <<>>,
      innerText |-> InnerText(e), tagName |-> <<"d", "i", "v">>, className |-> <<>> ]

\* index.ts:155-200 for an element of a modelled document.
getElementName(e, maxLength) == ElementNameOf(Unlabelled(e), maxLength)

\* element.contentFrame() is non-null (index.ts:264-265).
HostsFrame(d, e) == \E b \in d.framed : d.parentOf[b] = e

\* The last element, in document order, below e (e itself when it is a leaf).
LastDescendant(d, e) ==
    LET below == { x \in Elems : IsAncestor(d.parentOf, e, x) } \cup {e}
    IN CHOOSE m \in below : \A x \in below : x <= m

\* The candidate after e when e is skipped by 'continue' (index.ts:214, 220):
\* the content of a frame that e hosts is then never enumerated.
AfterSkipped(d, e) == IF HostsFrame(d, e) THEN LastDescendant(d, e) + 1 ELSE e + 1

(* ----------------------------- inventory ------------------------------ *)

\* Map.has, Map.delete and Map.set of allFoundElements (index.ts:231, 236, 253).
MapHas(m, k) == k \in DOMAIN m
MapDelete(m, k) == [x \in (DOMAIN m) \ {k} |-> m[x]]
MapSet(m, k, v) == [x \in (DOMAIN m) \cup {k} |-> IF x = k THEN v ELSE m[x]]
EmptyMap == [x \in {} |-> 0]

\* index.ts:253-257: the descriptor written for a candidate.
Descriptor(e, l, c) ==
    [locator |-> l, name |-> getElementName(e, nameMaxLength), count |-> c]

\* A commit that adds the new count to the count of the entry it overwrites.
CommitAccumulating(m, e, l, c) ==
    MapSet(m, l, Descriptor(e, l, IF MapHas(m, l) THEN m[l].count + c ELSE c))

\* A commit that stores one match fewer than the validation counted.
CommitOneLess(m, e, l, c) == MapSet(m, l, Descriptor(e, l, c - 1))

\* A commit that leaves an entry already stored under the key as it is.
CommitKeepFirst(m, e, l, c) == IF MapHas(m, l) THEN m ELSE MapSet(m, l, Descriptor(e, l, c))

\* index.ts:253: the commit of a candidate.
Commit(m, e, l, c) == MapSet(m, l, Descriptor(e, l, c))

\* A conflict rule that never removes the parent's entry.
RemoveParentNever(m, parentLocator, parentInfo) == m

\* index.ts:231-236: the parent's entry is removed when the parent is
\* qualifying; the presence of the key was tested before the await.
RemoveParent(m, parentLocator, parentInfo) ==
    IF Qualifies(parentInfo) THEN MapDelete(m, parentLocator) ELSE m

(* ------------------------------- state -------------------------------- *)

VARIABLES
    doc,               \* the live document and the driver's answers
    allFoundElements,  \* index.ts:39
    pollingIntervalId, \* index.ts:40 (NoTimer is null)
    stopPolling,       \* index.ts:41
    pass,              \* each invocation of traverseAndExtract(page): its await
    session,           \* the caller's view: initial, running, rejected, crashed
    pulses,            \* timer callbacks run so far
    mutations,         \* document changes so far
    writtenBy,         \* history: the candidate that last wrote each key
    settled,           \* history: the inventory when no pass was last in flight
    passEnd,           \* history: the inventory at the end of the last two complete passes
    lastRead,          \* history: the last getLocators made after stopObservation
    stopCalled,        \* history: stopObservation has returned
    stops,             \* history: calls of stopObservation so far (2: two or more)
    removed,           \* history: the key each pass deleted for its current candidate
    parked,            \* the closure of the other call of extractVisibleElementLocators
    focus,             \* the call (1 or 2) whose closure the variables above hold
    probe              \* input and result of an in-page function applied on its own

vars == << doc, allFoundElements, pollingIntervalId, stopPolling, pass, session,
           pulses, mutations, writtenBy, settled, passEnd, lastRead, stopCalled,
           stops, removed, parked, focus, probe >>

NoTimer == 0
TheTimer == 1

\* Pass 0 is the initial traversal (index.ts:272), pass k the one of pulse k.
PassIds == 0..MaxPulses

Working == {"enum", "vis", "gen", "parent", "pgen", "pvis", "dispose",
            "count", "name", "frame", "fenum"}

InFlight(p) == pass[p].pc \in Working
AnyInFlight == \E p \in PassIds : InFlight(p)

NoRead == [made |-> FALSE, inFlight |-> FALSE, consistent |-> TRUE]

\* index.ts:31-41: what one call of extractVisibleElementLocators owns, the
\* locals its closures capture (with the history kept about them).
Closure ==
    [ allFoundElements |-> allFoundElements, pollingIntervalId |-> pollingIntervalId,
      stopPolling |-> stopPolling, pass |-> pass, session |-> session,
      pulses |-> pulses, writtenBy |-> writtenBy, settled |-> settled,
      passEnd |-> passEnd, lastRead |-> lastRead, stopCalled |-> stopCalled,
      stops |-> stops, removed |-> removed ]

\* The closure of a call just made: index.ts:39-41, and the initial
\* traversal (index.ts:272) about to enumerate.
FreshClosure ==
    [ allFoundElements |-> EmptyMap, pollingIntervalId |-> NoTimer,
      stopPolling |-> FALSE,
      pass |-> [p \in PassIds |->
                  IF p = 0 THEN [pc |-> "enum", el |-> 0, count |-> 0]
                  ELSE [pc |-> "idle", el |-> 0, count |-> 0]],
      session |-> "initial", pulses |-> 0, writtenBy |-> EmptyMap,
      settled |-> EmptyMap,
      passEnd |-> [n |-> 0, prev |-> EmptyMap, last |-> EmptyMap],
      lastRead |-> NoRead, stopCalled |-> FALSE, stops |-> 0,
      removed |-> [p \in PassIds |-> Null] ]

\* No other call has been made.
Absent == [FreshClosure EXCEPT !.session = "absent"]

\* No in-page function is applied on its own.
NoProbe == [fn |-> "none"]

InitState(d) ==
    /\ doc = d
    /\ allFoundElements = EmptyMap
    /\ pollingIntervalId = NoTimer
    /\ stopPolling = FALSE
    /\ pass = [p \in PassIds |->
                 IF p = 0 THEN [pc |-> "enum", el |-> 0, count |-> 0]
                 ELSE [pc |-> "idle", el |-> 0, count |-> 0]]
    /\ session = "initial"
    /\ pulses = 0
    /\ mutations = 0
    /\ writtenBy = EmptyMap
    /\ settled = EmptyMap
    /\ passEnd = [n |-> 0, prev |-> EmptyMap, last |-> EmptyMap]
    /\ lastRead = NoRead
    /\ stopCalled = FALSE
    /\ stops = 0
    /\ removed = [p \in PassIds |-> Null]
    /\ parked = Absent
    /\ focus = 1

(* ------------------------ steps of one pass --------------------------- *)

\* The pass goes on to await something else; nothing completes.
Stay(p, pc2, c) ==
    /\ pass' = [pass EXCEPT ![p] = [pc |-> pc2, el |-> pass[p].el, count |-> c]]
    /\ UNCHANGED << session, pollingIntervalId, passEnd, stops, parked, focus, probe >>

OthersInFlight(p) == \E q \in PassIds \ {p} : InFlight(q)

\* index.ts:210 and 268-293: the loop takes candidate nxt, or has run out of
\* candidates.  The initial pass then lets extractVisibleElementLocators go
\* on: startDynamicElementObservation installs the timer (pollingIntervalId
\* is null there) and the handle is returned.  inv is the inventory this
\* step leaves.
Continue(p, nxt, inv) ==
    /\ removed' = [removed EXCEPT ![p] = Null]
    /\ UNCHANGED << stops, parked, focus, probe >>
    /\ IF nxt <= NElems
       THEN /\ pass' = [pass EXCEPT ![p] = [pc |-> "vis", el |-> nxt, count |-> 0]]
            /\ UNCHANGED << session, pollingIntervalId, passEnd, settled >>
       ELSE /\ pass' = [pass EXCEPT ![p] = [pc |-> "done", el |-> 0, count |-> 0]]
            /\ passEnd' = [n |-> passEnd.n + 1, prev |-> passEnd.last, last |-> inv]
            /\ settled' = IF OthersInFlight(p) THEN settled ELSE inv
            /\ IF p = 0
               THEN session' = "running" /\ pollingIntervalId' = TheTimer
               ELSE UNCHANGED << session, pollingIntervalId >>

\* An exception leaves traverseAndExtract: the promise of the pass rejects.
Throw(p) ==
    /\ pass' = [pass EXCEPT ![p] = [pc |-> "rejected", el |-> 0, count |-> 0]]
    /\ settled' = IF OthersInFlight(p) THEN settled ELSE allFoundElements
    /\ removed' = [removed EXCEPT ![p] = Null]
    /\ UNCHANGED << session, pollingIntervalId, passEnd, stops, parked, focus, probe >>

Alive == session \in {"initial", "running"}

\* index.ts:208: the answer of context.$$ on the page.
Enumerate(p) ==
    /\ Alive /\ pass[p].pc = "enum"
    /\ IF doc.rootDown
       THEN Throw(p)
       ELSE Continue(p, 1, allFoundElements)
    /\ UNCHANGED << doc, allFoundElements, stopPolling, pulses, mutations,
                    writtenBy, lastRead, stopCalled >>

\* A loop that skips a candidate only when it is not visible, whatever its size.
VisibilityAnySize(p) ==
    /\ Alive /\ pass[p].pc = "vis"
    /\ IF getElementVisibilityAndBoundingBox(doc, pass[p].el).isVisible
       THEN Stay(p, "gen", 0) /\ UNCHANGED << settled, removed >>
       ELSE Continue(p, AfterSkipped(doc, pass[p].el), allFoundElements)
    /\ UNCHANGED << doc, allFoundElements, stopPolling, pulses, mutations,
                    writtenBy, lastRead, stopCalled >>

\* index.ts:211-217: the BoundingInfo of the candidate.
Visibility(p) ==
    /\ Alive /\ pass[p].pc = "vis"
    /\ IF Qualifies(getElementVisibilityAndBoundingBox(doc, pass[p].el))
       THEN Stay(p, "gen", 0) /\ UNCHANGED << settled, removed >>
       ELSE Continue(p, AfterSkipped(doc, pass[p].el), allFoundElements)
    /\ UNCHANGED << doc, allFoundElements, stopPolling, pulses, mutations,
                    writtenBy, lastRead, stopCalled >>

\* index.ts:217-227: the candidate's locator.
GenerateLocator(p) ==
    /\ Alive /\ pass[p].pc = "gen"
    /\ IF generateCssLocator(doc, pass[p].el) = Null
       THEN Continue(p, AfterSkipped(doc, pass[p].el), allFoundElements)
       ELSE Stay(p, "parent", 0) /\ UNCHANGED << settled, removed >>
    /\ UNCHANGED << doc, allFoundElements, stopPolling, pulses, mutations,
                    writtenBy, lastRead, stopCalled >>

\* index.ts:227-230 and 241-249: the handle of the parent.  A throw is caught
\* at 242 and the validation follows; a null parent is only disposed of.
ResolveParent(p) ==
    /\ Alive /\ pass[p].pc = "parent"
    /\ LET f == doc.fault[pass[p].el] IN
       IF f = "parent" THEN Stay(p, "count", 0)
       ELSE IF f = "orphan" THEN Stay(p, "dispose", 0)
       ELSE Stay(p, "pgen", 0)
    /\ UNCHANGED << doc, allFoundElements, stopPolling, pulses, mutations,
                    writtenBy, settled, removed, lastRead, stopCalled >>

\* A conflict rule that looks up the candidate's own locator, not its parent's.
ParentLocatorOwn(p) ==
    /\ Alive /\ pass[p].pc = "pgen"
    /\ LET locator == generateCssLocator(doc, pass[p].el) IN
       IF MapHas(allFoundElements, locator)
       THEN Stay(p, "pvis", 0)
       ELSE Stay(p, "dispose", 0)
    /\ UNCHANGED << doc, allFoundElements, stopPolling, pulses, mutations,
                    writtenBy, settled, removed, lastRead, stopCalled >>

\* index.ts:230-232: the parent's locator, and whether it is a key.
ParentLocator(p) ==
    /\ Alive /\ pass[p].pc = "pgen"
    /\ LET parentLocator == generateCssLocator(doc, ParentElement(doc, pass[p].el)) IN
       IF parentLocator # Null /\ MapHas(allFoundElements, parentLocator)
       THEN Stay(p, "pvis", 0)
       ELSE Stay(p, "dispose", 0)
    /\ UNCHANGED << doc, allFoundElements, stopPolling, pulses, mutations,
                    writtenBy, settled, removed, lastRead, stopCalled >>

\* index.ts:232-241: the parent's BoundingInfo, and the removal of its entry.
ParentVisibility(p) ==
    /\ Alive /\ pass[p].pc = "pvis"
    /\ LET parent == ParentElement(doc, pass[p].el)
           parentLocator == generateCssLocator(doc, parent)
           parentInfo == getElementVisibilityAndBoundingBox(doc, parent)
       IN /\ allFoundElements' = RemoveParent(allFoundElements, parentLocator, parentInfo)
          /\ writtenBy' = RemoveParent(writtenBy, parentLocator, parentInfo)
          /\ removed' = [removed EXCEPT ![p] =
                            IF Qualifies(parentInfo) THEN parentLocator ELSE Null]
    /\ Stay(p, "dispose", 0)
    /\ UNCHANGED << doc, stopPolling, pulses, mutations, settled, lastRead, stopCalled >>

\* index.ts:241-249: parentHandle.dispose(); a throw is caught at 242.
DisposeParent(p) ==
    /\ Alive /\ pass[p].pc = "dispose"
    /\ Stay(p, "count", 0)
    /\ UNCHANGED << doc, allFoundElements, stopPolling, pulses, mutations,
                    writtenBy, settled, removed, lastRead, stopCalled >>

\* A validation that goes on to the commit whatever the count is.
CountMatchesUnchecked(p) ==
    /\ Alive /\ pass[p].pc = "count"
    /\ LET e == pass[p].el
           count == LocatorCount(doc, e)
       IN IF doc.fault[e] # "count"
          THEN Stay(p, "name", count)
          ELSE Stay(p, "frame", 0)
    /\ UNCHANGED << doc, allFoundElements, stopPolling, pulses, mutations,
                    writtenBy, settled, removed, lastRead, stopCalled >>

\* index.ts:249-252 and 259-264: the live match count of the locator.
CountMatches(p) ==
    /\ Alive /\ pass[p].pc = "count"
    /\ LET e == pass[p].el
           count == LocatorCount(doc, e)
       IN IF doc.fault[e] # "count" /\ count > 0
          THEN Stay(p, "name", count)
          ELSE Stay(p, "frame", 0)
    /\ UNCHANGED << doc, allFoundElements, stopPolling, pulses, mutations,
                    writtenBy, settled, removed, lastRead, stopCalled >>

\* index.ts:252-264: the name, and the commit of the candidate.
NameAndCommit(p) ==
    /\ Alive /\ pass[p].pc = "name"
    /\ LET e == pass[p].el
           locator == generateCssLocator(doc, e)
       IN IF doc.fault[e] = "name"
          THEN UNCHANGED << allFoundElements, writtenBy >>
          ELSE /\ allFoundElements' = Commit(allFoundElements, e, locator, pass[p].count)
               /\ writtenBy' = MapSet(writtenBy, locator, e)
    /\ Stay(p, "frame", 0)
    /\ UNCHANGED << doc, stopPolling, pulses, mutations, settled, removed, lastRead,
                    stopCalled >>

\* index.ts:264-268: the content frame of the candidate.  Nothing catches a
\* throw of contentFrame().
ContentFrame(p) ==
    /\ Alive /\ pass[p].pc = "frame"
    /\ LET e == pass[p].el IN
       IF doc.fault[e] = "frame" THEN Throw(p)
       ELSE IF HostsFrame(doc, e) THEN Stay(p, "fenum", 0) /\ UNCHANGED << settled, removed >>
       ELSE Continue(p, e + 1, allFoundElements)
    /\ UNCHANGED << doc, allFoundElements, stopPolling, pulses, mutations,
                    writtenBy, lastRead, stopCalled >>

\* index.ts:266 and 208: the answer of '$$' on the nested frame.  Nothing
\* catches its throw either; the frame's body is the next candidate.
EnumerateFrame(p) ==
    /\ Alive /\ pass[p].pc = "fenum"
    /\ IF doc.fault[pass[p].el] = "fenum"
       THEN Throw(p)
       ELSE Continue(p, pass[p].el + 1, allFoundElements)
    /\ UNCHANGED << doc, allFoundElements, stopPolling, pulses, mutations,
                    writtenBy, lastRead, stopCalled >>

PassStep(p) ==
    \/ Enumerate(p)
    \/ Visibility(p)
    \/ GenerateLocator(p)
    \/ ResolveParent(p)
    \/ ParentLocator(p)
    \/ ParentVisibility(p)
    \/ DisposeParent(p)
    \/ CountMatches(p)
    \/ NameAndCommit(p)
    \/ ContentFrame(p)
    \/ EnumerateFrame(p)

(* ------------------- rejections, timer, handle ------------------------ *)

\* index.ts:272: the initial traversal is awaited, so its rejection rejects
\* extractVisibleElementLocators; run() catches it (test.ts:68).  No timer
\* is installed and no handle is returned.
InitialRejected ==
    /\ session = "initial" /\ pass[0].pc = "rejected"
    /\ session' = "rejected"
    /\ pass' = [pass EXCEPT ![0].pc = "failed"]
    /\ UNCHANGED << doc, allFoundElements, pollingIntervalId, stopPolling, pulses,
                    mutations, writtenBy, settled, passEnd, lastRead, stopCalled,
                    stops, removed, parked, focus, probe >>

\* index.ts:279-289: the timer callback is an async function with no catch,
\* and setInterval drops the promise it returns: a rejection of the pass is
\* an unhandled rejection.  The runtime either ends the process (the default
\* of Node 15 and later) or prints a warning and goes on.
UnhandledRejection(p) ==
    /\ session = "running" /\ p # 0 /\ pass[p].pc = "rejected"
    /\ \/ /\ session' = "crashed"
          /\ pass' = [pass EXCEPT ![p].pc = "failed"]
       \/ /\ session' = session
          /\ pass' = [pass EXCEPT ![p].pc = "failed"]
    /\ UNCHANGED << doc, allFoundElements, pollingIntervalId, stopPolling, pulses,
                    mutations, writtenBy, settled, passEnd, lastRead, stopCalled,
                    stops, removed, parked, focus, probe >>

\* index.ts:279-289: one run of the setInterval callback.  clearInterval
\* (index.ts:307) keeps a cleared timer's callback from running.
Pulse ==
    /\ session = "running" /\ pollingIntervalId = TheTimer /\ pulses < MaxPulses
    /\ pulses' = pulses + 1
    /\ IF stopPolling
       THEN /\ pollingIntervalId' = NoTimer
            /\ UNCHANGED pass
       ELSE /\ pass' = [pass EXCEPT ![pulses + 1] = [pc |-> "enum", el |-> 0, count |-> 0]]
            /\ UNCHANGED pollingIntervalId
    /\ UNCHANGED << doc, allFoundElements, stopPolling, session, mutations,
                    writtenBy, settled, passEnd, lastRead, stopCalled,
                    stops, removed, parked, focus, probe >>

\* A stop that sets the flag and leaves the timer installed.
stopObservationKeepsTimer ==
    /\ session = "running"
    /\ stopPolling' = TRUE
    /\ stopCalled' = TRUE
    /\ stops' = IF stops < 2 THEN stops + 1 ELSE stops
    /\ UNCHANGED << doc, allFoundElements, pollingIntervalId, pass, session, pulses,
                    mutations, writtenBy, settled, passEnd, lastRead,
                    removed, parked, focus, probe >>

\* A stop that flips the flag instead of setting it.
stopObservationFlips ==
    /\ session = "running"
    /\ stopPolling' = ~stopPolling
    /\ pollingIntervalId' = NoTimer
    /\ stopCalled' = TRUE
    /\ stops' = IF stops < 2 THEN stops + 1 ELSE stops
    /\ UNCHANGED << doc, allFoundElements, pass, session, pulses, mutations,
                    writtenBy, settled, passEnd, lastRead,
                    removed, parked, focus, probe >>

\* index.ts:304-311.
stopObservation ==
    /\ session = "running"
    /\ stopPolling' = TRUE
    /\ pollingIntervalId' = NoTimer
    /\ stopCalled' = TRUE
    /\ stops' = IF stops < 2 THEN stops + 1 ELSE stops
    /\ UNCHANGED << doc, allFoundElements, pass, session, pulses, mutations,
                    writtenBy, settled, passEnd, lastRead,
                    removed, parked, focus, probe >>

\* test.ts:54: run() calls stopObservation once.
StopOnce == stops = 0 /\ stopObservation

\* index.ts:300: Array.from(allFoundElements.values()), read by the caller
\* (test.ts:56).  The read changes nothing; of a read that follows
\* stopObservation, lastRead records what it saw.
getLocators ==
    /\ session = "running"
    /\ lastRead' = IF stopCalled
                   THEN [made |-> TRUE, inFlight |-> AnyInFlight,
                         consistent |-> (allFoundElements = settled)]
                   ELSE lastRead
    /\ UNCHANGED << doc, allFoundElements, pollingIntervalId, stopPolling, pass,
                    session, pulses, mutations, writtenBy, settled, passEnd, stopCalled,
                    stops, removed, parked, focus, probe >>

(* --------------------------- the live page ---------------------------- *)

\* What the page can do between two driver calls: an element is removed from
\* or put back into the rendering, an element changes so that its recorded
\* selector stops or starts matching it, the page's context is destroyed by
\* a navigation or recreated.
Mutate ==
    /\ Alive /\ mutations < MaxMutations
    /\ mutations' = mutations + 1
    /\ \/ \E e \in Elems :
            doc' = [doc EXCEPT !.box[e] = IF doc.box[e] = BigBox THEN NoBox ELSE BigBox]
       \/ \E e \in Elems :
            doc' = [doc EXCEPT !.selfMatch[e] = ~doc.selfMatch[e]]
       \/ doc' = [doc EXCEPT !.rootDown = ~doc.rootDown]
    /\ UNCHANGED << allFoundElements, pollingIntervalId, stopPolling, pass, session,
                    pulses, writtenBy, settled, passEnd, lastRead, stopCalled,
                    stops, removed, parked, focus, probe >>

(* --------------------------- specifications --------------------------- *)

\* The session with everything the runtime allows: pulses that overlap a
\* pass still in flight, a page that changes, a caller that stops and reads.
Init == (\E d \in SessionDocs : InitState(d)) /\ probe = NoProbe

Next ==
    \/ \E p \in PassIds : PassStep(p)
    \/ InitialRejected
    \/ \E p \in PassIds : UnhandledRejection(p)
    \/ Pulse
    \/ StopOnce
    \/ getLocators
    \/ Mutate

Spec == Init /\ [][Next]_vars

\* Passes over a static document, one after the other: a pulse comes only
\* when the previous pass is over, and the caller does nothing.
PulseAlone == ~AnyInFlight /\ Pulse

NextStatic ==
    \/ \E p \in PassIds : PassStep(p)
    \/ InitialRejected
    \/ PulseAlone

InitStatic == (\E d \in Docs : InitState(d)) /\ probe = NoProbe

SpecStatic == InitStatic /\ [][NextStatic]_vars

(* ----------------------- an element is moved -------------------------- *)

\* A script of the page moves element e under another element a
\* (a.appendChild(e)) when '$$' has answered the initial pass and the loop has
\* not yet taken its first candidate: the handles, and so the order of the
\* candidates, are those of the document before the move.  Only a page
\* without nested frames is changed this way.
Reparent ==
    /\ session = "initial" /\ mutations < MaxMutations
    /\ pass[0].pc = "vis" /\ pass[0].el = 1
    /\ doc.framed = {}
    /\ mutations' = mutations + 1
    /\ \E e \in Elems \ {1} : \E a \in Elems \ {e} :
          /\ a # doc.parentOf[e]
          /\ ~IsAncestor(doc.parentOf, e, a)
          /\ doc' = [doc EXCEPT !.parentOf[e] = a]
    /\ UNCHANGED << allFoundElements, pollingIntervalId, stopPolling, pass, session,
                    pulses, writtenBy, settled, passEnd, lastRead, stopCalled,
                    stops, removed, parked, focus, probe >>

\* The initial pass over a page that moves an element under it.
NextReparent ==
    \/ PassStep(0)
    \/ Reparent

SpecReparent == Init /\ [][NextReparent]_vars

(* ------------------------- two calls, one page ------------------------ *)

\* The variables of the closure in focus take the values of closure c.
Resume(c) ==
    /\ allFoundElements' = c.allFoundElements
    /\ pollingIntervalId' = c.pollingIntervalId
    /\ stopPolling' = c.stopPolling
    /\ pass' = c.pass
    /\ session' = c.session
    /\ pulses' = c.pulses
    /\ writtenBy' = c.writtenBy
    /\ settled' = c.settled
    /\ passEnd' = c.passEnd
    /\ lastRead' = c.lastRead
    /\ stopCalled' = c.stopCalled
    /\ stops' = c.stops
    /\ removed' = c.removed

\* A second call that goes on with the map of the first one.
SecondCallKeepsInventory ==
    /\ focus = 1 /\ parked.session = "absent"
    /\ session = "running" /\ stopCalled
    /\ parked' = Closure
    /\ focus' = 2
    /\ Resume([FreshClosure EXCEPT !.allFoundElements = allFoundElements,
                                   !.writtenBy = writtenBy])
    /\ UNCHANGED << doc, mutations, probe >>

\* index.ts:31-41: the caller calls extractVisibleElementLocators again on
\* the same page after it has stopped the first session.  The call creates
\* its own map, timer handle and flag; the closures of the first call keep
\* theirs, and a pass of the first call still in flight goes on.
SecondCall ==
    /\ focus = 1 /\ parked.session = "absent"
    /\ session = "running" /\ stopCalled
    /\ parked' = Closure
    /\ focus' = 2
    /\ Resume(FreshClosure)
    /\ UNCHANGED << doc, mutations, probe >>

\* The event loop turns to a callback or continuation of the other call.
SwitchCall ==
    /\ parked.session # "absent"
    /\ parked' = Closure
    /\ focus' = 3 - focus
    /\ Resume(parked)
    /\ UNCHANGED << doc, mutations, probe >>

\* Two sessions on one static page: each runs its passes one after the
\* other, the caller stops a session any number of times.
NextSessions ==
    \/ \E p \in PassIds : PassStep(p)
    \/ PulseAlone
    \/ stopObservation
    \/ SecondCall
    \/ SwitchCall

SpecSessions == Init /\ [][NextSessions]_vars

(* ---------------------- in-page functions alone ----------------------- *)

\* A document for the session variables, which these specifications leave alone.
SomeDoc == CHOOSE d \in SessionDocs : TRUE

\* The texts an attribute, a label or an element can carry: none, white
\* space, a short text, a padded text longer than any modelled limit.
Texts ==
    { <<>>, <<" ">>, <<"a", "b">>, <<" ", "a", "b", "c", "d", "e", " ">> }

NameInputs ==
    [ id : {<<>>, <<"i">>}, labelFor : Texts, parentLabel : Texts, title : Texts,
      ariaLabel : Texts, placeholder : Texts, alt : Texts, innerText : Texts,
      tagName : {<<"d", "i", "v">>}, className : {<<>>, <<"b", " ", "c">>} ]

\* getElementName(element, nameMaxLength) is about to be called (index.ts:252).
NameProbes ==
    [ fn : {"getElementName"}, el : NameInputs, maxLength : {0, nameMaxLength},
      done : {FALSE}, name : {<<>>} ]

InitName == InitState(SomeDoc) /\ probe \in NameProbes

\* index.ts:155-200.
ApplyGetElementName ==
    /\ probe.fn = "getElementName" /\ ~probe.done
    /\ probe' = [probe EXCEPT !.done = TRUE,
                              !.name = ElementNameOf(probe.el, probe.maxLength)]
    /\ UNCHANGED << doc, allFoundElements, pollingIntervalId, stopPolling, pass,
                    session, pulses, mutations, writtenBy, settled, passEnd,
                    lastRead, stopCalled, stops, removed, parked, focus >>

NextName == ApplyGetElementName

SpecName == InitName /\ [][NextName]_vars

\* The page the locator function is applied to: <div> elements, all children
\* of <body>, without role or type.  Each has an id (none, a CSS identifier,
\* one starting with a digit, one with a dot in it), a data-testid, a
\* data-test-id, a name and a class, "" standing for an absent attribute.
Ids == {"", "a", "1a", "a.b"}

NodeAttrs ==
    [ id : Ids, testid : {"", "t"}, testid2 : {"", "u"}, name : {"", "n"},
      className : {"", "b"} ]

Nodes == 1..NNodes

Pages == [Nodes -> NodeAttrs]

\* document.querySelectorAll('#' + id).length (index.ts:87); the id is put
\* into the selector as it is.  -1: the selector is not valid CSS ('#1a')
\* and querySelectorAll throws.  '#a.b' selects the id a with the class b.
IdQuery(page, id) ==
    IF id = "1a" THEN -1
    ELSE IF id = "a.b"
    THEN Cardinality({ n \in Nodes : page[n].id = "a" /\ page[n].className = "b" })
    ELSE Cardinality({ n \in Nodes : page[n].id = id })

\* index.ts:105-112: the tag name with the class.
TagSelector(el) == "div" \o (IF el.className # "" THEN "." \o el.className ELSE "")

\* index.ts:83-147: the function evaluated in the page for element n, and
\* the null of the catch when it throws.
CssLocatorOf(page, n) ==
    LET el == page[n] IN
    IF el.id # "" /\ IdQuery(page, el.id) = -1 THEN Null
    ELSE IF el.id # "" /\ IdQuery(page, el.id) = 1 THEN "#" \o el.id
    ELSE IF el.testid # "" THEN "[data-testid=\"" \o el.testid \o "\"]"
    ELSE IF el.testid2 # "" THEN "[data-test-id=\"" \o el.testid2 \o "\"]"
    ELSE IF el.name # "" THEN "[name=\"" \o el.name \o "\"]"
    ELSE LET selector == TagSelector(el)
             found == Cardinality({ x \in Nodes :
                         el.className = "" \/ page[x].className = el.className })
         IN IF found > 1
            THEN selector \o ":nth-of-type(" \o ToString(n) \o ")"
            ELSE selector

\* Element x is one of those the selector sel selects (index.ts:248-249).
Selects(page, x, sel) ==
    \/ \E id \in Ids \ {"", "1a"} :
          /\ sel = "#" \o id
          /\ IF id = "a.b" THEN page[x].id = "a" /\ page[x].className = "b"
             ELSE page[x].id = id
    \/ page[x].testid # "" /\ sel = "[data-testid=\"" \o page[x].testid \o "\"]"
    \/ page[x].testid2 # "" /\ sel = "[data-test-id=\"" \o page[x].testid2 \o "\"]"
    \/ page[x].name # "" /\ sel = "[name=\"" \o page[x].name \o "\"]"
    \/ sel = "div"
    \/ sel = "div:nth-of-type(" \o ToString(x) \o ")"
    \/ page[x].className # "" /\ sel = TagSelector(page[x])
    \/ page[x].className # ""
          /\ sel = TagSelector(page[x]) \o ":nth-of-type(" \o ToString(x) \o ")"

\* generateCssLocator(element) is about to be called (index.ts:217).
LocatorProbes ==
    [ fn : {"generateCssLocator"}, page : Pages, node : Nodes,
      done : {FALSE}, locator : {Null}, count : {0} ]

InitLocator == InitState(SomeDoc) /\ probe \in LocatorProbes

\* index.ts:217-221 and 248-249: the locator of the candidate and, unless it
\* is null, the number of elements it selects.
GenerateAndCount ==
    /\ probe.fn = "generateCssLocator" /\ ~probe.done
    /\ LET locator == CssLocatorOf(probe.page, probe.node) IN
       probe' = [probe EXCEPT
                   !.done = TRUE,
                   !.locator = locator,
                   !.count = IF locator = Null THEN 0
                             ELSE Cardinality({ x \in Nodes :
                                    Selects(probe.page, x, locator) })]
    /\ UNCHANGED << doc, allFoundElements, pollingIntervalId, stopPolling, pass,
                    session, pulses, mutations, writtenBy, settled, passEnd,
                    lastRead, stopCalled, stops, removed, parked, focus >>

NextLocator == GenerateAndCount

SpecLocator == InitLocator /\ [][NextLocator]_vars

(* ------------------------- notions of the claims ---------------------- *)

Keys == DOMAIN allFoundElements

RECURSIVE DomAncestor(_, _, _)
\* a is a strict ancestor of e inside e's own document.
DomAncestor(d, a, e) ==
    LET q == ParentElement(d, e) IN
    IF q = 0 THEN FALSE ELSE q = a \/ DomAncestor(d, a, q)

\* The element the driver answers for el.parentElement (-1: none, or a throw).
DomParent(d, e) ==
    IF d.fault[e] \in {"orphan", "parent"} THEN -1 ELSE ParentElement(d, e)

\* The pass reaches e: no frame around e is hosted by an element it skips.
Reached(d, e) ==
    \A b \in d.framed :
        (b = e \/ IsAncestor(d.parentOf, b, e)) =>
            IsQualifying(d, d.parentOf[b]) /\ d.css[d.parentOf[b]] # Null

\* The session is between two passes, every pass so far having completed.
BetweenPasses ==
    /\ session = "running"
    /\ \A p \in PassIds : pass[p].pc \in {"idle", "done"}

(* ------------------------------- C1 ----------------------------------- *)

ProcessedPair(a, c) ==
    /\ a >= 1
    /\ IsQualifying(doc, a) /\ IsQualifying(doc, c)
    /\ doc.css[a] # Null /\ doc.css[c] # Null
    /\ Reached(doc, a) /\ Reached(doc, c)

CountedZero(p) ==
    /\ pass[p].pc = "count" /\ pass'[p].pc = "frame"
    /\ doc.fault[pass[p].el] # "count"
    /\ LocatorCount(doc, pass[p].el) = 0

\* C3 as stated: a locator whose validation counts 0 is no key of the
\* inventory after that validation, whoever committed it before.
C3_ZeroCountNeverAKey ==
    [][ \A p \in PassIds :
          CountedZero(p) => doc.css[pass[p].el] \notin DOMAIN allFoundElements' ]_vars

\* An entry is written (added or overwritten) by the step of pass p.
Writes(p, l) ==
    /\ l \in DOMAIN allFoundElements'
    /\ l \notin Keys \/ allFoundElements'[l] # allFoundElements[l] \/ writtenBy'[l] # writtenBy[l]
    /\ pass[p].pc = "name" /\ pass'[p].pc = "frame"
    /\ doc.css[pass[p].el] = l

\* C3 as amended: a validation that counts 0 writes nothing, and an entry is
\* added or overwritten only by a candidate whose own validation counted at
\* least one match, with that count; an entry committed earlier under the
\* same string stays as it was.
C3_ZeroCountWritesNothing ==
    [][ /\ \A p \in PassIds :
             CountedZero(p) => allFoundElements' = allFoundElements
        /\ \A l \in DOMAIN allFoundElements' :
             (l \notin Keys \/ allFoundElements'[l] # allFoundElements[l]) =>
                \E p \in PassIds :
                    /\ Writes(p, l)
                    /\ pass[p].count >= 1
                    /\ allFoundElements'[l].count = pass[p].count ]_vars

\* A validation has counted 0 for a qualifying candidate whose locator an
\* earlier pass committed, and the pass has gone on to the content frame.
C3_Witness ==
    \E p \in PassIds :
        /\ pass[p].pc = "frame"
        /\ IsQualifying(doc, pass[p].el)
        /\ doc.fault[pass[p].el] = "none"
        /\ LocatorCount(doc, pass[p].el) = 0
        /\ doc.css[pass[p].el] \in Keys

(* ------------------------------- C4 ----------------------------------- *)

\* C4: an entry whose locator still matches a live element leaves the
\* inventory only as the entry of a qualifying parent, removed by the
\* processing of its own qualifying child; the entry of another element that
\* generates the same locator string is never removed.
C4_OnlyOwnParentEntryRemoved ==
    [][ \A l \in Keys :
          (l \notin DOMAIN allFoundElements' /\ LocatorCount(doc, writtenBy[l]) > 0) =>
             \E p \in PassIds :
                /\ pass[p].pc = "pvis" /\ pass'[p].pc = "dispose"
                /\ writtenBy[l] = ParentElement(doc, pass[p].el)
                /\ IsQualifying(doc, writtenBy[l])
                /\ IsQualifying(doc, pass[p].el) ]_vars

(* ------------------------------- C5 ----------------------------------- *)

\* C5: at most one invocation of traverseAndExtract(page) is in flight.
C5_AtMostOnePassInFlight ==
    Cardinality({ p \in PassIds : InFlight(p) }) <= 1

(* ------------------------------- C6 ----------------------------------- *)

\* C6: what getLocators returns after stopObservation has returned is the
\* inventory as completed passes left it, no pass being in flight.
C6_ReadAfterStopIsSettled ==
    lastRead.made => lastRead.consistent

(* ------------------------------- C7 ----------------------------------- *)

\* C7: once stopObservation has been called the loop is stopped for good
\* (flag set, no timer installed), no timer callback runs and no pass that
\* had not started starts.
C7_NoPassAfterStop ==
    [][ /\ stopCalled' => (stopPolling' /\ pollingIntervalId' = NoTimer)
        /\ stopCalled =>
             /\ stopCalled'
             /\ pulses' = pulses
             /\ \A p \in PassIds : pass[p].pc = "idle" => pass'[p].pc = "idle" ]_vars

\* The loop was stopped while pulses were still to come and a pass was in
\* flight; that pass has ended, the caller has read, and no pulse has run.
C7_Witness ==
    /\ stopCalled /\ lastRead.made
    /\ pulses = 1 /\ pass[1].pc = "done" /\ pass[2].pc = "idle"
    /\ lastRead.inFlight

(* ------------------------------- C8 ----------------------------------- *)

\* C8: no exception leaves traverseAndExtract because of one candidate: a
\* pass is rejected only when the page's own context is unusable.
C8_NoPassRejectedByOneCandidate ==
    \A p \in PassIds : pass[p].pc \in {"rejected", "failed"} => doc.rootDown

(* ------------------------------- C9 ----------------------------------- *)

\* C9: after a pass started by a pulse has failed, the loop is not in a
\* terminal state: the session runs and, unless stopped, its timer is active.
C9_TimerSurvivesFailedPass ==
    \A p \in PassIds \ {0} :
        pass[p].pc = "failed" =>
            /\ session = "running"
            /\ stopCalled \/ pollingIntervalId = TheTimer

(* ------------------------------- C10 ---------------------------------- *)

\* C10: over a static document a complete pass leaves the inventory (keys
\* and descriptors) exactly as the complete pass before it left it.
C10_SecondPassSameInventory ==
    passEnd.n >= 2 => passEnd.last = passEnd.prev

\* Two passes have completed over a document with a nested frame, a locator
\* string shared by two elements and a non-qualifying parent, and the
\* inventory is not empty.
C10_Witness ==
    /\ passEnd.n >= 2 /\ passEnd.last # EmptyMap
    /\ doc.framed # {}
    /\ \E x \in Elems, y \in Elems : x # y /\ doc.css[x] = doc.css[y] /\ doc.css[x] \in Keys
    /\ \E e \in Elems : ~IsQualifying(doc, e) /\ Children(doc.parentOf, e) # {}

(* ------------------------------- C11 ---------------------------------- *)

\* The entry under l is added or re-written by the step.
Written(l) ==
    /\ l \in DOMAIN allFoundElements'
    /\ l \notin Keys \/ allFoundElements'[l] # allFoundElements[l]
                     \/ writtenBy'[l] # writtenBy[l]

\* C11: an entry is written only by the commit of a candidate whose
\* visibility evaluation answered isVisible with width and height of at
\* least minElementSize; over the static document that answer is the one
\* the document gives now.
C11_OnlyQualifyingCandidatesWrite ==
    [][ \A l \in DOMAIN allFoundElements' :
          Written(l) =>
             \E p \in PassIds :
                /\ Writes(p, l)
                /\ Qualifies(getElementVisibilityAndBoundingBox(doc, pass[p].el)) ]_vars

\* A pass has completed over a document with a visible 3x3 element: other
\* candidates have entries, the 3x3 element has written none.
C11_Witness ==
    /\ passEnd.n >= 1 /\ Keys # {}
    /\ \E e \in Elems :
         /\ doc.box[e] = [styled |-> TRUE, width |-> 3, height |-> 3, box |-> TRUE]
         /\ doc.css[e] \notin Keys
         /\ \A k \in Keys : writtenBy[k] # e

(* ------------------------------- C12 ---------------------------------- *)

\* C12: every entry has count >= 1, and the count of an entry is the number
\* of live matches the validation of the candidate that wrote it observed.
C12_CountIsValidatedAndPositive ==
    [][ /\ \A k \in DOMAIN allFoundElements' : allFoundElements'[k].count >= 1
        /\ \A p \in PassIds :
             (pass[p].pc = "count" /\ pass'[p].pc = "name") =>
                pass'[p].count = LocatorCount(doc, pass[p].el)
        /\ \A p \in PassIds : \A l \in DOMAIN allFoundElements' :
             Writes(p, l) => allFoundElements'[l].count = pass[p].count ]_vars

\* An entry holds the count 2 its validation observed, while the page has
\* changed since and its locator matches one element now.
C12_Witness ==
    \E k \in Keys :
        /\ allFoundElements[k].count = 2
        /\ LocatorCount(doc, writtenBy[k]) = 1

(* ------------------------------- C13 ---------------------------------- *)

\* C13: the name getElementName returns is at most maxLength long, whichever
\* rule of the priority chain produced it.
C13_NameWithinMaxLength ==
    (probe.fn = "getElementName" /\ probe.done) =>
        Len(probe.name) <= probe.maxLength

\* A name was cut to the limit: the text of the label for the element's id,
\* longer than the limit, or the tag-name fallback of an element without text.
C13_Witness ==
    /\ probe.fn = "getElementName" /\ probe.done
    /\ probe.maxLength = nameMaxLength
    /\ Len(probe.name) = nameMaxLength
    /\ \/ /\ probe.el.id # <<>>
          /\ Len(Trim(probe.el.labelFor)) > nameMaxLength
       \/ /\ \A f \in {"labelFor", "parentLabel", "title", "ariaLabel",
                        "placeholder", "alt"} : probe.el[f] = <<>>
          /\ Trim(probe.el.innerText) = <<>>

(* ------------------------------- C14 ---------------------------------- *)

\* C14: for an element whose id exactly one element of the document
\* carries, the generated locator is '#' followed by the id, and the
\* validation counts one match.
C14_UniqueIdGivesIdSelector ==
    (probe.fn = "generateCssLocator" /\ probe.done) =>
        LET id == probe.page[probe.node].id IN
        (id # "" /\ Cardinality({ n \in Nodes : probe.page[n].id = id }) = 1) =>
            (probe.locator = "#" \o id /\ probe.count = 1)

(* ------------------------------- C15 ---------------------------------- *)

\* C15: a call made after the stop of an earlier session starts with an
\* empty inventory, no timer and a clear flag of its own, the earlier
\* session keeping what it had; a step of one call (pass step, pulse, stop)
\* leaves everything the other call owns as it was; and turning to the
\* other call changes neither.
C15_SessionsOwnTheirState ==
    [][ /\ (focus = 1 /\ focus' = 2 /\ parked.session = "absent") =>
             /\ allFoundElements' = EmptyMap
             /\ pollingIntervalId' = NoTimer /\ stopPolling' = FALSE
             /\ pass'[0].pc = "enum"
             /\ parked' = Closure
        /\ focus' = focus => parked' = parked
        /\ (focus' # focus /\ parked.session # "absent") =>
             (parked' = Closure /\ Closure' = parked) ]_vars

\* The second session is in a pass and has entries, while a pass of the
\* first session, stopped before the second call, is still in flight on an
\* inventory of its own that differs from the second session's.
C15_Witness ==
    /\ focus = 2 /\ AnyInFlight /\ Keys # {}
    /\ parked.stopCalled
    /\ \E p \in PassIds : parked.pass[p].pc \in Working
    /\ parked.allFoundElements # EmptyMap
    /\ parked.allFoundElements # allFoundElements

(* ------------------------------- C16 ---------------------------------- *)

\* C16: a second call of stopObservation finds the flag set and no timer
\* installed and leaves them so, with the inventory and the passes as they
\* were; and from the first call on no step of the session runs a pulse or
\* starts a pass.
C16_StopIsIdempotent ==
    [][ /\ (focus' = focus /\ stops >= 1 /\ stops' = stops + 1) =>
             /\ stopPolling /\ stopPolling'
             /\ pollingIntervalId = NoTimer /\ pollingIntervalId' = NoTimer
             /\ allFoundElements' = allFoundElements
             /\ pass' = pass
        /\ (focus' = focus /\ stops >= 1) =>
             /\ pulses' = pulses
             /\ \A p \in PassIds : pass[p].pc = "idle" => pass'[p].pc = "idle" ]_vars

\* stopObservation was called twice while a pass started by a pulse was in
\* flight on a non-empty inventory.
C16_Witness ==
    /\ stops = 2 /\ pulses >= 1 /\ pulses < MaxPulses
    /\ AnyInFlight /\ Keys # {}
    /\ stopPolling /\ pollingIntervalId = NoTimer

(* ------------------------------- C17 ---------------------------------- *)

\* The step is the commit of the candidate of pass p (index.ts:253).
Commits(p) ==
    /\ pass[p].pc = "name" /\ pass'[p].pc = "frame"
    /\ doc.fault[pass[p].el] # "name"

\* C17: when a candidate whose processing has removed the entry of its
\* qualifying parent is committed, the parent's locator is not a key of the
\* inventory, whatever has run between the delete and the set.
C17_ParentAbsentAtChildCommit ==
    [][ \A p \in PassIds :
          (Commits(p) /\ removed[p] # Null /\ removed[p] # doc.css[pass[p].el]) =>
             removed[p] \notin DOMAIN allFoundElements' ]_vars

(* ------------------------------- C18 ---------------------------------- *)

\* C18: at the end of a pass that has processed a qualifying child before
\* its qualifying parent, the parent's locator is no key of the inventory
\* (the locators of the two being generated by no other element).
C18_ParentAfterChildIsRemoved ==
    pass[0].pc = "done" =>
        \A c \in Elems :
            LET a == DomParent(doc, c) IN
            ( /\ a > c
              /\ IsQualifying(doc, a) /\ IsQualifying(doc, c)
              /\ \A x \in Elems \ {a} : doc.css[x] # doc.css[a]
              /\ \A x \in Elems \ {c} : doc.css[x] # doc.css[c] )
            => doc.css[a] \notin Keys

(* ------------------------------- C19 ---------------------------------- *)

\* C19: every entry of the inventory carries its key as its locator and the
\* name of the candidate that committed last under that key; a commit
\* stores {locator, name, count} of its candidate under the candidate's
\* locator, replacing what was stored there, and leaves the other entries.
C19_LastCommitWins ==
    [][ /\ \A k \in DOMAIN allFoundElements' :
             /\ allFoundElements'[k].locator = k
             /\ allFoundElements'[k].name = getElementName(writtenBy'[k], nameMaxLength)
        /\ \A p \in PassIds :
             Commits(p) =>
                LET e == pass[p].el
                    l == doc.css[e]
                IN /\ DOMAIN allFoundElements' = Keys \cup {l}
                   /\ allFoundElements'[l] =
                         [locator |-> l, name |-> getElementName(e, nameMaxLength),
                          count |-> pass[p].count]
                   /\ \A k \in Keys \ {l} : allFoundElements'[k] = allFoundElements[k] ]_vars

\* The initial pass over an unchanged page is over; two candidates it has
\* committed generate the same locator and have different names, and the
\* entry is the one of the later of the two.
C19_Witness ==
    /\ pass[0].pc = "done" /\ pulses = 0 /\ mutations = 0
    /\ \E e1 \in Elems, e2 \in Elems :
          /\ e1 < e2 /\ doc.css[e1] = doc.css[e2]
          /\ ~(\E x \in Elems : x > e2 /\ doc.css[x] = doc.css[e2])
          /\ Reached(doc, e1) /\ Reached(doc, e2)
          /\ IsQualifying(doc, e1) /\ IsQualifying(doc, e2)
          /\ getElementName(e1, nameMaxLength) # getElementName(e2, nameMaxLength)
          /\ doc.css[e2] \in Keys
          /\ writtenBy[doc.css[e2]] = e2
          /\ allFoundElements[doc.css[e2]].name = getElementName(e2, nameMaxLength)

(* ------------------------------- C20 ---------------------------------- *)

\* C20: once stopObservation has been called at most one pass is in flight,
\* and when no pass is in flight any more the inventory does not change.
C20_OneFinalPassThenStable ==
    [][ stopCalled =>
          /\ Cardinality({ p \in PassIds : InFlight(p) }) <= 1
          /\ ~AnyInFlight => allFoundElements' = allFoundElements ]_vars

(* ------------------------------- C21 ---------------------------------- *)

\* index.ts:251 and 259: the validation of the candidate of pass p ends
\* without a commit (count 0, or a throw of count() or of getElementName).
Skips(p) ==
    \/ pass[p].pc = "count" /\ pass'[p].pc = "frame"
    \/ pass[p].pc = "name" /\ pass'[p].pc = "frame" /\ doc.fault[pass[p].el] = "name"

\* C21: when the validation of a candidate ends (index.ts:261), a candidate
\* whose processing has removed its parent's entry has its own locator as a
\* key of the inventory, and a candidate that is skipped has removed no
\* entry and written none (passes run one after the other here, so that is
\* the inventory as it was before the candidate).
C21_RemoverIsCommittedSkipLeavesInventory ==
    [][ \A p \in PassIds :
          /\ (Commits(p) \/ Skips(p)) =>
                (removed[p] # Null => doc.css[pass[p].el] \in DOMAIN allFoundElements')
          /\ Skips(p) =>
                (removed[p] = Null /\ allFoundElements' = allFoundElements) ]_vars

====
